---------------------------- MODULE Spec2Model ----------------------------
(***************************************************************************)
(* A model of IniLib: the Document (IniFile) -> Section (IniSection) ->    *)
(* Value (IniValue) data model, the text codec used by load and save, and  *)
(* the operations of IniFile.                                              *)
(*                                                                         *)
(* A std::string is a sequence of one-character strings, so that trim,     *)
(* toLower, removeComment, split and join are computed character by        *)
(* character as the code computes them.  A std::unordered_map is a         *)
(* function whose domain is the set of stored names.                       *)
(***************************************************************************)
EXTENDS Integers, Sequences, FiniteSets, TLC

VARIABLES
    sections,   \* IniFile::sections: section name -> (key name -> Value)
    disk,       \* the file at the path given to load/save: [exists, text]
    saved,      \* the Document as it was handed to the last save
    op,         \* the last call: [name, section, key, value]
    retBool,    \* the bool returned by the last call (FALSE otherwise)
    retValue,   \* the IniValue returned by the last call (<<>> otherwise)
    retCount,   \* the size_t returned by the last call (0 otherwise)
    retInt,     \* the short, int or long returned by the last call (0 otherwise)
    retText,    \* the std::string or char returned by the last call (<<>> otherwise)
    thrown      \* the exception the last call threw (NoException otherwise)

vars == <<sections, disk, saved, retBool, retValue, retCount, retInt, retText,
          thrown, op>>

-----------------------------------------------------------------------------
(* Bounds of the model *)

\* the largest number of elements of a Value passed to set or as a default
MaxElems == 2

\* the longest line over LineChars that is loaded
MaxLineLen == 4

\* the longest right-hand side over RestChars of a loaded line "K=..."
MaxRestLen == 5

\* the longest text over DecodeChars that is decoded
MaxTextLen == 4

\* the largest number of elements of a Value that is read, joined and split
MaxValueLen == 3

\* the largest number of lines of a loaded file made of TemplateLines
MaxLines == 4

-----------------------------------------------------------------------------
(* std::string helpers *)

\* std::string::npos: larger than every position
npos == 2147483647

UpperCase == <<"A","B","C","D","E","F","G","H","I","J","K","L","M",
               "N","O","P","Q","R","S","T","U","V","W","X","Y","Z">>
LowerCase == <<"a","b","c","d","e","f","g","h","i","j","k","l","m",
               "n","o","p","q","r","s","t","u","v","w","x","y","z">>

\* std::tolower in the "C" locale
tolower(c) ==
    IF \E i \in 1..Len(UpperCase) : UpperCase[i] = c
    THEN LowerCase[CHOOSE i \in 1..Len(UpperCase) : UpperCase[i] = c]
    ELSE c

\* the characters trim removes: " \t\n\r"
Whitespace == {" ", "\t", "\n", "\r"}

Min(a, b) == IF a <= b THEN a ELSE b

\* str.find(c): 0-based position of the first c, npos when there is none
find(str, c) ==
    IF \E i \in 1..Len(str) : str[i] = c
    THEN (CHOOSE i \in 1..Len(str) :
             str[i] = c /\ \A j \in 1..(i - 1) : str[j] # c) - 1
    ELSE npos

\* str.find_first_not_of(set)
find_first_not_of(str, set) ==
    IF \E i \in 1..Len(str) : str[i] \notin set
    THEN (CHOOSE i \in 1..Len(str) :
             str[i] \notin set /\ \A j \in 1..(i - 1) : str[j] \in set) - 1
    ELSE npos

\* str.find_last_not_of(set)
find_last_not_of(str, set) ==
    IF \E i \in 1..Len(str) : str[i] \notin set
    THEN (CHOOSE i \in 1..Len(str) :
             str[i] \notin set /\ \A j \in (i + 1)..Len(str) : str[j] \in set) - 1
    ELSE npos

\* str.substr(pos, count), count clamped to the end of str (pos <= size)
substr(str, pos, count) == SubSeq(str, pos + 1, Min(pos + count, Len(str)))

\* str.substr(pos): to the end of str
substrFrom(str, pos) == SubSeq(str, pos + 1, Len(str))

toLowerIdentity(str) == str

\* IniFile::toLower
toLower(str) == [i \in 1..Len(str) |-> tolower(str[i])]

\* IniFile::trim
trim(str) ==
    LET first == find_first_not_of(str, Whitespace)
        last  == find_last_not_of(str, Whitespace)
    IN  IF first = npos \/ last = npos
        THEN <<>>
        ELSE substr(str, first, last - first + 1)

removeCommentSemicolonOnly(str) ==
    LET commentPos == find(str, ";")
    IN  IF commentPos # npos THEN substr(str, 0, commentPos) ELSE str

\* IniFile::removeComment
removeComment(str) ==
    LET commentPos == Min(find(str, ";"), find(str, "#"))
    IN  IF commentPos # npos THEN substr(str, 0, commentPos) ELSE str

RECURSIVE splitNoTrim(_, _)
splitNoTrim(str, delimiter) ==
    IF str = <<>>
    THEN <<>>
    ELSE LET p == find(str, delimiter)
         IN  IF p = npos
             THEN <<str>>
             ELSE <<substr(str, 0, p)>>
                  \o splitNoTrim(substrFrom(str, p + 1), delimiter)

\* IniFile::split: std::getline(ss, item, delimiter) until the stream is
\* exhausted, every item trimmed.  getline fails, and the loop ends, when no
\* character is left, so no item follows a final delimiter.
RECURSIVE split(_, _)
split(str, delimiter) ==
    IF str = <<>>
    THEN <<>>
    ELSE LET p == find(str, delimiter)
         IN  IF p = npos
             THEN <<trim(str)>>
             ELSE <<trim(substr(str, 0, p))>>
                  \o split(substrFrom(str, p + 1), delimiter)

\* the lines std::getline(file, line) yields for a file holding text
RECURSIVE getlines(_)
getlines(text) ==
    IF text = <<>>
    THEN <<>>
    ELSE LET p == find(text, "\n")
         IN  IF p = npos
             THEN <<text>>
             ELSE <<substr(text, 0, p)>> \o getlines(substrFrom(text, p + 1))

\* IniValue::join
RECURSIVE join(_, _)
join(vec, delimiter) ==
    IF vec = <<>>
    THEN <<>>
    ELSE IF Len(vec) = 1
         THEN vec[1]
         ELSE join(SubSeq(vec, 1, Len(vec) - 1), delimiter)
              \o delimiter \o vec[Len(vec)]

getStringFirstOnly(values) ==
    IF values = <<>> THEN <<>> ELSE values[1]

getStringCommaOnly(values) ==
    IF values = <<>> THEN <<>>
    ELSE IF Len(values) = 1 THEN values[1]
    ELSE join(values, <<",">>)

\* IniValue::getString
getString(values) ==
    IF values = <<>> THEN <<>>
    ELSE IF Len(values) = 1 THEN values[1]
    ELSE join(values, <<",", " ">>)

-----------------------------------------------------------------------------
(* std::unordered_map *)

\* a map with no entry
EmptyMap == <<>>

\* m.find(k) != m.end()
MapHas(m, k) == k \in DOMAIN m

\* m[k] = v
MapPut(m, k, v) == [x \in (DOMAIN m) \cup {k} |-> IF x = k THEN v ELSE m[x]]

\* m.erase(k)
MapErase(m, k) == [x \in (DOMAIN m) \ {k} |-> m[x]]


\* m[k] on a mutable map: the entry is default-constructed when absent
MapIndex(m, k, default) == IF MapHas(m, k) THEN m ELSE MapPut(m, k, default)

-----------------------------------------------------------------------------
(* Exceptions *)

\* an exception: the class that is thrown and what it reports
Exception(type, what) == [type |-> type, what |-> what]

\* no exception was thrown
NoException == Exception("none", "")

\* IniFileException("Section \"...\" does not exist.")
SectionDoesNotExist == Exception("IniFileException", "Section does not exist.")

\* IniFileException("Key \"...\" does not exist in the section.")
KeyDoesNotExist == Exception("IniFileException", "Key does not exist in the section.")

\* IniValueConvertException("Invalid <type> value: ...")
InvalidValue == Exception("IniValueConvertException", "Invalid value")

\* IniValueConvertException("IniValue is empty")
ValueIsEmpty == Exception("IniValueConvertException", "IniValue is empty")

-----------------------------------------------------------------------------
(* strtol with base 0, as std::stoi and std::stol call it *)

INT_MAX == 2147483647
INT_MIN == -INT_MAX - 1

\* isspace in the "C" locale (the vertical tab is left out)
IsSpace == {" ", "\t", "\n", "\r", "\f"}

DecDigits   == <<"0", "1", "2", "3", "4", "5", "6", "7", "8", "9">>
LowerHexDigits == <<"a", "b", "c", "d", "e", "f">>
UpperHexDigits == <<"A", "B", "C", "D", "E", "F">>

\* the element of a set of one element: The({e : x \in {v}}) is e where x
\* is v, and v is computed once
The(S) == CHOOSE x \in S : TRUE

\* the position of c in seq, 0 when it is not there
IndexOf(seq, c) ==
    IF \E i \in 1..Len(seq) : seq[i] = c
    THEN CHOOSE i \in 1..Len(seq) : seq[i] = c
    ELSE 0

\* the value of c as a digit, 36 for a character that is no digit of any base
DigitValue(c) ==
    IF IndexOf(DecDigits, c) > 0 THEN IndexOf(DecDigits, c) - 1
    ELSE IF IndexOf(LowerHexDigits, c) > 0 THEN IndexOf(LowerHexDigits, c) + 9
    ELSE IF IndexOf(UpperHexDigits, c) > 0 THEN IndexOf(UpperHexDigits, c) + 9
    ELSE 36

\* the digits str[i..last] of a number in the given base, accumulated on the
\* negative side so that the most negative value is reached without
\* overflow; lowest is the least value the accumulation may take
RECURSIVE Accumulate(_, _, _, _, _, _)
Accumulate(str, i, last, base, lowest, acc) ==
    IF i > last
    THEN [overflow |-> FALSE, value |-> acc]
    ELSE LET d == DigitValue(str[i])
         IN  IF acc < (lowest + d + base - 1) \div base
             THEN [overflow |-> TRUE, value |-> lowest]
             ELSE Accumulate(str, i + 1, last, base, lowest, acc * base - d)

\* strtol(str, &end, 0) on a long of the range min..max: whether a number
\* was converted, whether it left the range, its value, and the number of
\* characters up to end
strtol(str, min, max) ==
    LET n        == Len(str)
        at(i)    == IF i <= n THEN str[i] ELSE ""
        notSpace == {i \in 1..n : str[i] \notin IsSpace}
        start    == IF notSpace = {} THEN n + 1
                    ELSE CHOOSE i \in notSpace : \A j \in notSpace : i <= j
        negative == at(start) = "-"
        p        == IF at(start) \in {"+", "-"} THEN start + 1 ELSE start
        hex      == /\ at(p) = "0"
                    /\ at(p + 1) \in {"x", "X"}
                    /\ DigitValue(at(p + 2)) < 16
        base     == IF hex THEN 16 ELSE IF at(p) = "0" THEN 8 ELSE 10
        first    == IF hex THEN p + 2 ELSE p
        nonDigit == {i \in first..(n + 1) : DigitValue(at(i)) >= base}
    IN  The({ The({ [converted |-> stop > first,
                     overflow  |-> r.overflow,
                     value     |-> IF negative THEN r.value ELSE -r.value,
                     idx       |-> IF stop > first THEN stop - 1 ELSE 0]
                    : r \in {Accumulate(str, first, stop - 1, base,
                                        IF negative THEN min ELSE -max, 0)} })
              : stop \in {CHOOSE i \in nonDigit : \A j \in nonDigit : i <= j} })

\* std::stoi(str, &idx, 0): invalid_argument when strtol converts nothing,
\* out_of_range when the number is not an int
stoi(str) ==
    The({ [thrown |-> IF ~r.converted THEN "invalid_argument"
                      ELSE IF r.overflow THEN "out_of_range" ELSE "none",
           result |-> r.value,
           idx    |-> r.idx]
          : r \in {strtol(str, INT_MIN, INT_MAX)} })

-----------------------------------------------------------------------------
(* IniValueConvert<T>: a T is a record [type, v]; v is a BOOLEAN for bool, a  *)
(* one-character string for char, an integer for short, int and long, a      *)
(* string for std::string, and for double the number of 10^-DoubleDigits     *)
(* the double is nearest to.                                                 *)

Typed(type, v) == [type |-> type, v |-> v]

\* what a decode yields: the exception, or the T
Decoded(type, v) == [thrown |-> NoException, ret |-> Typed(type, v)]
Failed(e)        == [thrown |-> e, ret |-> Typed("none", 0)]

\* IniValueConvert<bool>::decode
decodeBool(value) ==
    IF value = <<"t", "r", "u", "e">> \/ value = <<"1">>
    THEN Decoded("bool", TRUE)
    ELSE IF value = <<"f", "a", "l", "s", "e">> \/ value = <<"0">>
         THEN Decoded("bool", FALSE)
         ELSE Failed(InvalidValue)

\* IniValueConvert<bool>::encode
encodeBool(v) == IF v THEN <<"t", "r", "u", "e">> ELSE <<"f", "a", "l", "s", "e">>

\* IniValueConvert<char>::decode
decodeChar(value) ==
    IF Len(value) # 1 THEN Failed(InvalidValue) ELSE Decoded("char", value[1])

\* IniValueConvert<char>::encode
encodeChar(v) == <<v>>

\* static_cast<short>(n) where short has 16 bits
CastToShort(n) == (((n % 65536) + 32768) % 65536) - 32768

\* IniValueConvert<short>::decode
decodeShort(value) ==
    The({ IF r.thrown # "none" \/ r.idx # Len(value)
          THEN Failed(InvalidValue)
          ELSE Decoded("short", CastToShort(r.result))
          : r \in {stoi(value)} })

\* IniValueConvert<int>::decode
decodeInt(value) ==
    The({ IF r.thrown # "none" \/ r.idx # Len(value)
          THEN Failed(InvalidValue)
          ELSE Decoded("int", r.result)
          : r \in {stoi(value)} })

\* IniValueConvert<long>::decode, where long has the width of int; the texts
\* decoded as long are those whose number is in that range, on which a wider
\* long decodes the same
decodeLong(value) ==
    The({ IF r.thrown # "none" \/ r.idx # Len(value)
          THEN Failed(InvalidValue)
          ELSE Decoded("long", r.result)
          : r \in {stoi(value)} })

\* the decimal digits of -m for m <= 0, most significant first
RECURSIVE DigitsOfNegated(_)
DigitsOfNegated(m) ==
    LET d == (10 - (m % 10)) % 10
    IN  IF m > -10
        THEN <<DecDigits[d + 1]>>
        ELSE Append(DigitsOfNegated((m + d) \div 10), DecDigits[d + 1])

to_stringNoSign(n) == DigitsOfNegated(IF n < 0 THEN n ELSE -n)

\* std::to_string of a short, int or long
to_string(n) ==
    IF n < 0 THEN <<"-">> \o DigitsOfNegated(n) ELSE DigitsOfNegated(-n)

\* the digits std::to_string(double) writes after the point ("%f")
Precision == 6

\* the decimals a double of the model is counted in
DoubleDigits == Precision + 1

RECURSIVE Power10(_)
Power10(n) == IF n = 0 THEN 1 ELSE 10 * Power10(n - 1)

\* the texts a double is decoded from: "0." and 1..DoubleDigits decimals that
\* are 0 or 1; the double nearest to such a number is rounded by "%f" as the
\* number itself is, since the number is not close to the middle of two
\* numbers of Precision decimals
IsDoubleText(value) ==
    /\ Len(value) \in 3..(2 + DoubleDigits)
    /\ value[1] = "0"
    /\ value[2] = "."
    /\ \A i \in 3..Len(value) : value[i] \in {"0", "1"}

\* std::stod on such a text
RECURSIVE stod(_)
stod(value) ==
    IF Len(value) = 2
    THEN 0
    ELSE stod(SubSeq(value, 1, Len(value) - 1))
            + DigitValue(value[Len(value)]) * Power10(DoubleDigits + 2 - Len(value))

\* IniValueConvert<double>::decode on such a text
decodeDouble(value) == Decoded("double", stod(value))

\* the last n decimal digits of m, the leading zeros included
RECURSIVE FixedDigits(_, _)
FixedDigits(m, n) ==
    IF n = 0 THEN <<>>
    ELSE Append(FixedDigits(m \div 10, n - 1), DecDigits[(m % 10) + 1])

\* std::to_string of a double in 0..1 of the model: Precision decimals, the
\* nearest
to_stringDouble(v) ==
    LET unit    == Power10(DoubleDigits - Precision)
        rounded == (v + unit \div 2) \div unit
    IN  <<"0", ".">> \o FixedDigits(rounded, Precision)

\* IniValueConvert<std::string>::decode
decodeString(value) == Decoded("std::string", value)

\* the end of a C string in an array of char
NUL == "NUL"

\* std::string(const char*): the characters before the first NUL
CString(arr) ==
    LET ends == {i \in 1..Len(arr) : arr[i] = NUL}
    IN  IF ends = {} THEN arr
        ELSE SubSeq(arr, 1, (CHOOSE i \in ends : \A j \in ends : i <= j) - 1)

\* IniValueConvert<T>::decode
decode(T, value) ==
    CASE T = "bool"        -> decodeBool(value)
      [] T = "char"        -> decodeChar(value)
      [] T = "short"       -> decodeShort(value)
      [] T = "int"         -> decodeInt(value)
      [] T = "long"        -> decodeLong(value)
      [] T = "double"      -> decodeDouble(value)
      [] T = "std::string" -> decodeString(value)

\* IniValueConvert<T>::encode
encode(T, v) ==
    CASE T = "bool"        -> encodeBool(v)
      [] T = "char"        -> encodeChar(v)
      [] T = "short"       -> to_string(v)
      [] T = "int"         -> to_string(v)
      [] T = "long"        -> to_string(v)
      [] T = "double"      -> to_stringDouble(v)
      [] T = "std::string" -> v
      [] T = "const char*" -> CString(v)

-----------------------------------------------------------------------------
(* IniValue: values is the Value's vector of strings *)

IniValue_getAsLast(values, T) ==
    IF values = <<>>
    THEN Failed(ValueIsEmpty)
    ELSE decode(T, values[Len(values)])

\* IniValue::getAs<T>
IniValue_getAs(values, T) ==
    IF values = <<>>
    THEN Failed(ValueIsEmpty)
    ELSE decode(T, values[1])

\* IniValue::operator=(const T&)
IniValue_assign(values, T, value) == <<encode(T, value)>>

\* IniValue::operator=(T(&arr)[N])
IniValue_assignArray(values, T, arr) ==
    IF T = "const char"
    THEN <<encode("const char*", arr)>>
    ELSE [i \in 1..Len(arr) |-> encode(T, arr[i])]

\* IniValue::operator=(std::initializer_list<T>)
IniValue_assignList(values, T, list) ==
    [i \in 1..Len(list) |-> encode(T, list[i])]

IniValue_assignVectorAppends(values, T, vec) ==
    values \o [i \in 1..Len(vec) |-> encode(T, vec[i])]

\* IniValue::operator=(const std::vector<T>&)
IniValue_assignVector(values, T, vec) ==
    [i \in 1..Len(vec) |-> encode(T, vec[i])]

-----------------------------------------------------------------------------
(* IniSection: keyValues is the section's map from key name to Value *)

IniSection_getNoLower(keyValues, key, defaultValue) ==
    IF MapHas(keyValues, key) THEN keyValues[key] ELSE defaultValue

\* IniSection::get
IniSection_get(keyValues, key, defaultValue) ==
    LET it == toLower(key)
    IN  IF MapHas(keyValues, it) THEN keyValues[it] ELSE defaultValue

IniSection_setNoLower(keyValues, key, value) == MapPut(keyValues, key, value)

\* IniSection::set
IniSection_set(keyValues, key, value) == MapPut(keyValues, toLower(key), value)

\* IniSection::removeKey: the section's map after the call, and its result
IniSection_removeKey(keyValues, key) ==
    [keyValues |-> MapErase(keyValues, toLower(key)),
     ret       |-> MapHas(keyValues, toLower(key))]

\* IniSection::clear
IniSection_clear(keyValues) == EmptyMap

\* IniSection::hasKey
IniSection_hasKey(keyValues, key) == MapHas(keyValues, toLower(key))

\* IniSection::keyCount
IniSection_keyCount(keyValues) == Cardinality(DOMAIN keyValues)

IniSection_indexNoInsert(keyValues, key) ==
    [keyValues |-> keyValues,
     ret       |-> IF MapHas(keyValues, toLower(key))
                   THEN keyValues[toLower(key)] ELSE <<>>]

\* IniSection::operator[]: the section's map after the call, and the Value
\* the returned reference names
IniSection_index(keyValues, key) ==
    LET m == MapIndex(keyValues, toLower(key), <<>>)
    IN  [keyValues |-> m, ret |-> m[toLower(key)]]

\* IniSection::operator[] const: the Value the returned reference names, or
\* the exception
IniSection_indexConst(keyValues, key) ==
    LET it == toLower(key)
    IN  IF ~MapHas(keyValues, it)
        THEN [thrown |-> KeyDoesNotExist, ret |-> <<>>]
        ELSE [thrown |-> NoException, ret |-> keyValues[it]]

-----------------------------------------------------------------------------
(* IniFile: secs is the Document's map from section name to section *)

\* IniFile::get
IniFile_get(secs, section, key, defaultValue) ==
    LET it == toLower(section)
    IN  IF MapHas(secs, it)
        THEN IniSection_get(secs[it], key, defaultValue)
        ELSE defaultValue

\* IniFile::set
IniFile_set(secs, section, key, value) ==
    LET s  == toLower(section)
        m  == MapIndex(secs, s, EmptyMap)
    IN  MapPut(m, s, IniSection_set(m[s], key, value))

IniFile_removeSectionKeepsIt(secs, section) ==
    [sections |-> secs, ret |-> MapHas(secs, toLower(section))]

\* IniFile::removeSection: the Document after the call, and its result
IniFile_removeSection(secs, section) ==
    [sections |-> MapErase(secs, toLower(section)),
     ret      |-> MapHas(secs, toLower(section))]

\* IniFile::removeKey: the Document after the call, and its result
IniFile_removeKey(secs, section, key) ==
    LET secIt == toLower(section)
    IN  IF MapHas(secs, secIt)
        THEN LET r == IniSection_removeKey(secs[secIt], key)
             IN  [sections |-> MapPut(secs, secIt, r.keyValues), ret |-> r.ret]
        ELSE [sections |-> secs, ret |-> FALSE]

\* IniFile::clear
IniFile_clear(secs) == EmptyMap

IniFile_clearSectionErases(secs, section) == MapErase(secs, toLower(section))

\* IniFile::clearSection
IniFile_clearSection(secs, section) ==
    LET s == toLower(section)
        m == MapIndex(secs, s, EmptyMap)
    IN  MapPut(m, s, IniSection_clear(m[s]))

\* IniFile::hasSection
IniFile_hasSection(secs, section) == MapHas(secs, toLower(section))

\* IniFile::hasKey
IniFile_hasKey(secs, section, key) ==
    LET secIt == toLower(section)
    IN  IF MapHas(secs, secIt) THEN IniSection_hasKey(secs[secIt], key) ELSE FALSE

\* IniFile::sectionCount
IniFile_sectionCount(secs) == Cardinality(DOMAIN secs)

\* IniFile::keyCount
IniFile_keyCount(secs, section) ==
    LET secIt == toLower(section)
    IN  IF MapHas(secs, secIt) THEN IniSection_keyCount(secs[secIt]) ELSE 0

IniFile_addSectionOverwrites(secs, section) ==
    [sections |-> MapPut(secs, toLower(section), EmptyMap),
     ret      |-> ~MapHas(secs, toLower(section))]

\* IniFile::addSection: emplace inserts only when the name is absent
IniFile_addSection(secs, section) ==
    [sections |-> MapIndex(secs, toLower(section), EmptyMap),
     ret      |-> ~MapHas(secs, toLower(section))]

\* IniFile::operator[]: the Document after the call; the returned reference
\* names its section toLower(section)
IniFile_index(secs, section) == MapIndex(secs, toLower(section), EmptyMap)

\* IniFile::operator[] const: the section the returned reference names, or
\* the exception
IniFile_indexConst(secs, section) ==
    LET it == toLower(section)
    IN  IF ~MapHas(secs, it)
        THEN [thrown |-> SectionDoesNotExist, ret |-> EmptyMap]
        ELSE [thrown |-> NoException, ret |-> secs[it]]

-----------------------------------------------------------------------------
(* IniFile::load and IniFile::save *)

ApplyLineResets(st, line) ==
    IF line[1] = "[" /\ line[Len(line)] = "]"
    THEN LET name == toLower(trim(substr(line, 1, Len(line) - 2)))
         IN  [sections       |-> MapPut(st.sections, name, EmptyMap),
              currentSection |-> name]
    ELSE LET pos == find(line, "=")
         IN  IF pos # npos
             THEN LET key    == toLower(trim(substr(line, 0, pos)))
                      value  == trim(substrFrom(line, pos + 1))
                      values == split(value, ",")
                      m      == MapIndex(st.sections, st.currentSection, EmptyMap)
                  IN  [st EXCEPT !.sections =
                          MapPut(m, st.currentSection,
                                 IniSection_set(m[st.currentSection], key, values))]
             ELSE st

\* the body of load's loop for a line that is not empty after
\* trim(removeComment(line)).  st = [sections, currentSection]
ApplyLine(st, line) ==
    IF line[1] = "[" /\ line[Len(line)] = "]"
    THEN [st EXCEPT !.currentSection =
                        toLower(trim(substr(line, 1, Len(line) - 2)))]
    ELSE LET pos == find(line, "=")
         IN  IF pos # npos
             THEN LET key    == toLower(trim(substr(line, 0, pos)))
                      value  == trim(substrFrom(line, pos + 1))
                      values == split(value, ",")
                      m      == MapIndex(st.sections, st.currentSection, EmptyMap)
                  IN  [st EXCEPT !.sections =
                          MapPut(m, st.currentSection,
                                 IniSection_set(m[st.currentSection], key, values))]
             ELSE st

\* one pass of load's loop: the line as getline read it
LoadLine(st, raw) ==
    LET line == trim(removeComment(raw))
    IN  IF line = <<>> THEN st ELSE ApplyLine(st, line)

\* load's loop over the lines of the file, in order
RECURSIVE LoadLines(_, _)
LoadLines(st, lines) ==
    IF lines = <<>>
    THEN st
    ELSE LoadLines(LoadLine(st, Head(lines)), Tail(lines))

IniFile_loadClearsFirst(secs, file) ==
    IF ~file.exists
    THEN [sections |-> EmptyMap, ret |-> FALSE]
    ELSE [sections |-> LoadLines([sections |-> EmptyMap, currentSection |-> <<>>],
                                 getlines(file.text)).sections,
          ret      |-> TRUE]

\* IniFile::load: the Document after the call, and its result
IniFile_load(secs, file) ==
    IF ~file.exists
    THEN [sections |-> secs, ret |-> FALSE]
    ELSE [sections |-> LoadLines([sections |-> secs, currentSection |-> <<>>],
                                 getlines(file.text)).sections,
          ret      |-> TRUE]

\* the orders in which a range-for may enumerate an unordered_map's keys
Orders(S) ==
    {q \in [1..Cardinality(S) -> S] :
        \A i, j \in 1..Cardinality(S) : i # j => q[i] # q[j]}

\* one enumeration order for the keys of every section
KeyOrders(secs) ==
    {f \in [DOMAIN secs -> UNION {Orders(DOMAIN secs[sn]) : sn \in DOMAIN secs}] :
        \A sn \in DOMAIN secs : f[sn] \in Orders(DOMAIN secs[sn])}

\* save's inner loop: kv.first << "=" << kv.second.getString() << "\n"
RECURSIVE SaveKeys(_, _)
SaveKeys(keyValues, keyOrder) ==
    IF keyOrder = <<>>
    THEN <<>>
    ELSE Head(keyOrder) \o <<"=">> \o getString(keyValues[Head(keyOrder)]) \o <<"\n">>
         \o SaveKeys(keyValues, Tail(keyOrder))

\* save's outer loop: "[" << name << "]\n", the keys, "\n"
RECURSIVE SaveSections(_, _, _)
SaveSections(secs, sectionOrder, keyOrders) ==
    IF sectionOrder = <<>>
    THEN <<>>
    ELSE LET name == Head(sectionOrder)
         IN  <<"[">> \o name \o <<"]", "\n">>
             \o SaveKeys(secs[name], keyOrders[name])
             \o <<"\n">>
             \o SaveSections(secs, Tail(sectionOrder), keyOrders)

\* IniFile::save: the file after the call, and its result; opened tells
\* whether the ofstream could be opened
IniFile_save(secs, file, opened, sectionOrder, keyOrders) ==
    IF ~opened
    THEN [file |-> file, ret |-> FALSE]
    ELSE [file |-> [exists |-> TRUE,
                    text   |-> SaveSections(secs, sectionOrder, keyOrders)],
          ret  |-> TRUE]

-----------------------------------------------------------------------------
(* The arguments the callers of the model pass *)

\* sequences over S of length 0..n
RECURSIVE SeqsUpTo(_, _)
SeqsUpTo(S, n) ==
    IF n = 0
    THEN {<<>>}
    ELSE LET shorter == SeqsUpTo(S, n - 1)
         IN  shorter \cup {Append(q, x) : q \in {r \in shorter : Len(r) = n - 1}, x \in S}

SectionArgs == {<<"s">>, <<"S">>, <<"t">>}
KeyArgs     == {<<"k">>, <<"K">>, <<"j">>}
Missing     == <<"m","i","s","s","i","n","g">>
Fallback    == <<"f","a","l","l","b","a","c","k">>
ElemArgs    == {<<"x">>}
ValueArgs   == SeqsUpTo(ElemArgs, MaxElems)
DefaultArgs == {<<>>, <<Fallback>>}

NoFile == [exists |-> FALSE, text |-> <<>>]

Call(name, section, key, value) ==
    [name |-> name, section |-> section, key |-> key, value |-> value]

\* what a call that returns nothing of a kind leaves in the ret variables
Returns(b, v, n) ==
    /\ retBool' = b
    /\ retValue' = v
    /\ retCount' = n
    /\ retInt' = 0
    /\ retText' = <<>>
    /\ thrown' = NoException

\* a call that throws returns nothing
Throws(e) ==
    /\ retBool' = FALSE
    /\ retValue' = <<>>
    /\ retCount' = 0
    /\ retInt' = 0
    /\ retText' = <<>>
    /\ thrown' = e

InitApi ==
    /\ sections = EmptyMap
    /\ disk = NoFile
    /\ saved = EmptyMap
    /\ op = Call("init", <<>>, <<>>, <<>>)
    /\ retBool = FALSE
    /\ retValue = <<>>
    /\ retCount = 0
    /\ retInt = 0
    /\ retText = <<>>
    /\ thrown = NoException

-----------------------------------------------------------------------------
(* The calls on the Document *)

Get ==
    \E section \in SectionArgs \cup {Missing}, key \in KeyArgs,
       defaultValue \in DefaultArgs :
        /\ op' = Call("get", section, key, defaultValue)
        /\ Returns(FALSE, IniFile_get(sections, section, key, defaultValue), 0)
        /\ UNCHANGED <<sections, disk, saved>>

Set ==
    \E section \in SectionArgs, key \in KeyArgs, value \in ValueArgs :
        /\ sections' = IniFile_set(sections, section, key, value)
        /\ op' = Call("set", section, key, value)
        /\ Returns(FALSE, <<>>, 0)
        /\ UNCHANGED <<disk, saved>>

RemoveSection ==
    \E section \in SectionArgs :
        LET r == IniFile_removeSection(sections, section)
        IN  /\ sections' = r.sections
            /\ op' = Call("removeSection", section, <<>>, <<>>)
            /\ Returns(r.ret, <<>>, 0)
            /\ UNCHANGED <<disk, saved>>

RemoveKey ==
    \E section \in SectionArgs, key \in KeyArgs :
        LET r == IniFile_removeKey(sections, section, key)
        IN  /\ sections' = r.sections
            /\ op' = Call("removeKey", section, key, <<>>)
            /\ Returns(r.ret, <<>>, 0)
            /\ UNCHANGED <<disk, saved>>

Clear ==
    /\ sections' = IniFile_clear(sections)
    /\ op' = Call("clear", <<>>, <<>>, <<>>)
    /\ Returns(FALSE, <<>>, 0)
    /\ UNCHANGED <<disk, saved>>

ClearSection ==
    \E section \in SectionArgs :
        /\ sections' = IniFile_clearSection(sections, section)
        /\ op' = Call("clearSection", section, <<>>, <<>>)
        /\ Returns(FALSE, <<>>, 0)
        /\ UNCHANGED <<disk, saved>>

AddSection ==
    \E section \in SectionArgs :
        LET r == IniFile_addSection(sections, section)
        IN  /\ sections' = r.sections
            /\ op' = Call("addSection", section, <<>>, <<>>)
            /\ Returns(r.ret, <<>>, 0)
            /\ UNCHANGED <<disk, saved>>

HasSection ==
    \E section \in SectionArgs \cup {Missing} :
        /\ op' = Call("hasSection", section, <<>>, <<>>)
        /\ Returns(IniFile_hasSection(sections, section), <<>>, 0)
        /\ UNCHANGED <<sections, disk, saved>>

HasKey ==
    \E section \in SectionArgs, key \in KeyArgs :
        /\ op' = Call("hasKey", section, key, <<>>)
        /\ Returns(IniFile_hasKey(sections, section, key), <<>>, 0)
        /\ UNCHANGED <<sections, disk, saved>>

SectionCount ==
    /\ op' = Call("sectionCount", <<>>, <<>>, <<>>)
    /\ Returns(FALSE, <<>>, IniFile_sectionCount(sections))
    /\ UNCHANGED <<sections, disk, saved>>

KeyCount ==
    \E section \in SectionArgs :
        /\ op' = Call("keyCount", section, <<>>, <<>>)
        /\ Returns(FALSE, <<>>, IniFile_keyCount(sections, section))
        /\ UNCHANGED <<sections, disk, saved>>

NextApi ==
    \/ Get
    \/ Set
    \/ RemoveSection
    \/ RemoveKey
    \/ Clear
    \/ ClearSection
    \/ AddSection
    \/ HasSection
    \/ HasKey
    \/ SectionCount
    \/ KeyCount

\* a Document built and queried through its programmatic surface
Spec == InitApi /\ [][NextApi]_vars


-----------------------------------------------------------------------------
(* Notions the properties are stated with *)

\* a and b differ at most in the case of their letters
SameIgnoringCase(a, b) ==
    /\ Len(a) = Len(b)
    /\ \A i \in 1..Len(a) :
          \/ a[i] = b[i]
          \/ \E j \in 1..Len(UpperCase) : {a[i], b[i]} = {UpperCase[j], LowerCase[j]}

\* the Document holds an entry whose section and key names match section and
\* key up to case
EntryExists(secs, section, key) ==
    \E sn \in DOMAIN secs :
        /\ SameIgnoringCase(sn, section)
        /\ \E kn \in DOMAIN secs[sn] : SameIgnoringCase(kn, key)

\* the Value of that entry
EntryValue(secs, section, key) ==
    LET sn == CHOOSE n \in DOMAIN secs :
                  /\ SameIgnoringCase(n, section)
                  /\ \E kn \in DOMAIN secs[n] : SameIgnoringCase(kn, key)
        kn == CHOOSE n \in DOMAIN secs[sn] : SameIgnoringCase(n, key)
    IN  secs[sn][kn]

\* the Document holds a section whose name matches section up to case
SectionExists(secs, section) ==
    \E sn \in DOMAIN secs : SameIgnoringCase(sn, section)

-----------------------------------------------------------------------------
(* Properties of the calls on the Document, under Spec *)

\* C1: names that differ only in letter case name the same entry.  After
\* set(s,k,v), get(s',k') returns v and hasSection(s'), hasKey(s',k') are true
\* for every s', k' that differ from s, k only in case; and a set(s',k',w)
\* that follows overwrites that entry: keyCount(s) is unchanged and get(s,k)
\* returns w.
C1_CaseInsensitive ==
    [][op'.name = "set" =>
        /\ \A s2 \in SectionArgs, k2 \in KeyArgs :
              (SameIgnoringCase(s2, op'.section) /\ SameIgnoringCase(k2, op'.key)) =>
                  /\ IniFile_get(sections', s2, k2, <<Fallback>>) = op'.value
                  /\ IniFile_hasSection(sections', s2)
                  /\ IniFile_hasKey(sections', s2, k2)
        /\ (/\ op.name = "set"
            /\ SameIgnoringCase(op.section, op'.section)
            /\ SameIgnoringCase(op.key, op'.key)) =>
                  /\ IniFile_keyCount(sections', op.section)
                        = IniFile_keyCount(sections, op.section)
                  /\ IniFile_get(sections', op.section, op.key, <<Fallback>>)
                        = op'.value
    ]_vars

\* C1 witness: set("S","K",v) was called with a non-empty v, the section holds
\* another key too, and get("s","k") finds v
C1_Witness ==
    /\ op.name = "set"
    /\ op.section = <<"S">>
    /\ op.key = <<"K">>
    /\ op.value # <<>>
    /\ IniFile_keyCount(sections, <<"s">>) = 2
    /\ IniFile_get(sections, <<"s">>, <<"k">>, <<Fallback>>) = op.value

\* C4: get changes nothing in the Document and returns the stored Value when
\* the entry exists (names compared up to case), the default otherwise;
\* get("missing","k","fallback") returns "fallback" and the section "missing"
\* is still absent.
C4_GetNonMutating ==
    [][op'.name = "get" =>
        /\ sections' = sections
        /\ IniFile_sectionCount(sections') = IniFile_sectionCount(sections)
        /\ retValue' = IF EntryExists(sections, op'.section, op'.key)
                       THEN EntryValue(sections, op'.section, op'.key)
                       ELSE op'.value
        /\ (op'.section = Missing /\ op'.key = <<"k">> /\ op'.value = <<Fallback>>) =>
              /\ retValue' = <<Fallback>>
              /\ ~IniFile_hasSection(sections', Missing)
    ]_vars

\* C4 witness: get("missing","k","fallback") returned "fallback" on a Document
\* that holds other entries
C4_Witness ==
    /\ op.name = "get"
    /\ op.section = Missing
    /\ op.key = <<"k">>
    /\ retValue = <<Fallback>>
    /\ IniFile_hasKey(sections, <<"s">>, <<"k">>)
    /\ ~IniFile_hasSection(sections, Missing)

\* C9: after clearSection(s) the section s is present with no key, every
\* other section is as it was and no other section appeared; a second
\* clearSection(s) right after the first changes nothing.
C9_ClearSection ==
    [][op'.name = "clearSection" =>
        /\ IniFile_hasSection(sections', op'.section)
        /\ IniFile_keyCount(sections', op'.section) = 0
        /\ \A o \in DOMAIN sections :
              ~SameIgnoringCase(o, op'.section) =>
                  o \in DOMAIN sections' /\ sections'[o] = sections[o]
        /\ \A o \in DOMAIN sections' :
              ~SameIgnoringCase(o, op'.section) => o \in DOMAIN sections
        /\ (op.name = "clearSection" /\ SameIgnoringCase(op.section, op'.section)) =>
              sections' = sections
    ]_vars

\* C9 witness: clearSection("S") was called, the section "s" is present and
\* empty, and another section still holds a key
C9_Witness ==
    /\ op.name = "clearSection"
    /\ op.section = <<"S">>
    /\ IniFile_hasSection(sections, <<"s">>)
    /\ IniFile_keyCount(sections, <<"s">>) = 0
    /\ IniFile_keyCount(sections, <<"t">>) > 0

\* C10: removeSection and removeKey return true exactly when the entry
\* existed (names compared up to case); after a true return the entry is
\* absent; on an absent entry the Document is unchanged, and removeKey on an
\* absent section does not create it.
C10_Remove ==
    [][/\ op'.name = "removeSection" =>
            /\ retBool' = SectionExists(sections, op'.section)
            /\ retBool' => ~IniFile_hasSection(sections', op'.section)
            /\ ~retBool' => sections' = sections
       /\ op'.name = "removeKey" =>
            /\ retBool' = EntryExists(sections, op'.section, op'.key)
            /\ retBool' => ~IniFile_hasKey(sections', op'.section, op'.key)
            /\ ~retBool' => sections' = sections
            /\ ~SectionExists(sections, op'.section) =>
                   ~IniFile_hasSection(sections', op'.section)
    ]_vars

\* C10 witness: removeKey("S","K") returned true, the key is gone and its
\* section is still there with another key
C10_Witness ==
    /\ op.name = "removeKey"
    /\ op.section = <<"S">>
    /\ op.key = <<"K">>
    /\ retBool
    /\ ~IniFile_hasKey(sections, <<"s">>, <<"k">>)
    /\ IniFile_keyCount(sections, <<"s">>) = 1

\* C11: addSection(s) returns true exactly when no section of that name (up
\* to case) existed, and then the section is present with no key; when the
\* section existed it returns false and the Document, that section's keys and
\* Values included, is as it was.  Every other section is as it was.
C11_AddSection ==
    [][op'.name = "addSection" =>
        /\ retBool' = ~SectionExists(sections, op'.section)
        /\ retBool' =>
              /\ IniFile_hasSection(sections', op'.section)
              /\ IniFile_keyCount(sections', op'.section) = 0
        /\ ~retBool' => sections' = sections
        /\ \A o \in DOMAIN sections :
              o \in DOMAIN sections' /\ sections'[o] = sections[o]
        /\ \A o \in DOMAIN sections' :
              ~SameIgnoringCase(o, op'.section) => o \in DOMAIN sections
    ]_vars

\* C11 witness: addSection("S") returned false on a Document whose section
\* "s" holds two keys, and the section still holds them
C11_Witness ==
    /\ op.name = "addSection"
    /\ op.section = <<"S">>
    /\ ~retBool
    /\ IniFile_keyCount(sections, <<"s">>) = 2
    /\ IniFile_get(sections, <<"s">>, <<"k">>, <<Fallback>>) = <<"x">>


-----------------------------------------------------------------------------
(* Saving a Document and loading the file back *)

\* the maps from some of Keys to Vals
MapsOver(Keys, Vals) == UNION {[K -> Vals] : K \in SUBSET Keys}

\* the elements and Values of the Documents that are saved: "x" and the empty
\* string, in Values of 0..MaxElems elements
FileElemArgs  == {<<"x">>, <<>>}
FileValueArgs == SeqsUpTo(FileElemArgs, MaxElems)

\* the Documents that are saved: sections among "s" (keys among "k", "j") and
\* "t" (keys among "k"), each of which set, clearSection and removeKey build
DocArgs ==
    UNION {{d \in [D -> MapsOver({<<"k">>, <<"j">>}, FileValueArgs)] :
               <<"t">> \in D => d[<<"t">>] \in MapsOver({<<"k">>}, FileValueArgs)} :
           D \in SUBSET {<<"s">>, <<"t">>}}

InitSaveLoad ==
    /\ sections \in DocArgs
    /\ disk = NoFile
    /\ saved = EmptyMap
    /\ op = Call("init", <<>>, <<>>, <<>>)
    /\ retBool = FALSE
    /\ retValue = <<>>
    /\ retCount = 0
    /\ retInt = 0
    /\ retText = <<>>
    /\ thrown = NoException

Save ==
    \E opened \in BOOLEAN, sectionOrder \in Orders(DOMAIN sections),
       keyOrders \in KeyOrders(sections) :
        LET r == IniFile_save(sections, disk, opened, sectionOrder, keyOrders)
        IN  /\ disk' = r.file
            /\ saved' = IF r.ret THEN sections ELSE saved
            /\ op' = Call("save", <<>>, <<>>, <<>>)
            /\ Returns(r.ret, <<>>, 0)
            /\ UNCHANGED sections

Load ==
    LET r == IniFile_load(sections, disk)
    IN  /\ sections' = r.sections
        /\ op' = Call("load", <<>>, <<>>, <<>>)
        /\ Returns(r.ret, <<>>, 0)
        /\ UNCHANGED <<disk, saved>>

NextSaveLoad ==
    \/ Save
    \/ Clear
    \/ Load

\* a Document that is saved, cleared and loaded back
SpecSaveLoad == InitSaveLoad /\ [][NextSaveLoad]_vars

\* the concatenation of a sequence of strings
RECURSIVE Flatten(_)
Flatten(strs) == IF strs = <<>> THEN <<>> ELSE Head(strs) \o Flatten(Tail(strs))

\* the elements of value with sep between neighbours
Joined(value, sep) ==
    Flatten([i \in 1..Len(value) |-> IF i = 1 THEN value[i] ELSE sep \o value[i]])

\* the lines of one section in a saved file: the header, one line per key in
\* the order given, and a blank line
SectionLines(name, keyValues, keyOrder, sep) ==
    << <<"[">> \o name \o <<"]">> >>
    \o [i \in 1..Len(keyOrder) |->
           keyOrder[i] \o <<"=">> \o Joined(keyValues[keyOrder[i]], sep)]
    \o << <<>> >>

\* the text of a saved file: every line ended by a line feed
FileText(secs, sectionOrder, keyOrders, sep) ==
    LET lines == Flatten([i \in 1..Len(sectionOrder) |->
                     SectionLines(sectionOrder[i], secs[sectionOrder[i]],
                                  keyOrders[sectionOrder[i]], sep)])
    IN  Flatten([i \in 1..Len(lines) |-> lines[i] \o <<"\n">>])

\* what the round trip asks of a Document: no element of any Value holds one
\* of , ; # [ ] or starts or ends with whitespace
ValuesRoundTripSafe(secs) ==
    \A sn \in DOMAIN secs : \A kn \in DOMAIN secs[sn] :
        \A i \in 1..Len(secs[sn][kn]) :
            LET e == secs[sn][kn][i]
            IN  /\ \A j \in 1..Len(e) : e[j] \notin {",", ";", "#", "[", "]"}
                /\ e # <<>> => (e[1] \notin Whitespace /\ e[Len(e)] \notin Whitespace)

\* C2: a Document whose values are free of , ; # [ ] and of leading and
\* trailing whitespace, saved and then loaded into an empty Document, is
\* reproduced: the same sections, keys and value sequences.
C2_RoundTrip ==
    [][(/\ op'.name = "load"
        /\ retBool'
        /\ sections = EmptyMap
        /\ ValuesRoundTripSafe(saved)) => sections' = saved
    ]_vars

\* C3 as the specification states it: the saved file is, section by section,
\* "[name]", one line "key=v1,v2,..." per key with the elements joined by ","
\* alone, and a blank line.
C3_SaveFormatCommaOnly ==
    (op.name = "save" /\ retBool) =>
        \E sectionOrder \in Orders(DOMAIN sections), keyOrders \in KeyOrders(sections) :
            disk.text = FileText(sections, sectionOrder, keyOrders, <<",">>)

\* C3 as amended: the saved file is, section by section, "[name]", one line
\* per key made of the key, "=" and the Value's elements joined by ", "
\* (a comma and one space), and a blank line.
C3_SaveFormat ==
    (op.name = "save" /\ retBool) =>
        \E sectionOrder \in Orders(DOMAIN sections), keyOrders \in KeyOrders(sections) :
            disk.text = FileText(sections, sectionOrder, keyOrders, <<",", " ">>)

\* C3 witness: a Document of two sections, with a Value of two elements and
\* a Value of none, was saved
C3_Witness ==
    /\ op.name = "save"
    /\ retBool
    /\ IniFile_sectionCount(sections) = 2
    /\ IniFile_keyCount(sections, <<"s">>) = 2
    /\ Len(IniFile_get(sections, <<"s">>, <<"k">>, <<>>)) = 2
    /\ IniFile_hasKey(sections, <<"s">>, <<"j">>)
    /\ Len(IniFile_get(sections, <<"s">>, <<"j">>, <<Fallback>>)) = 0


-----------------------------------------------------------------------------
(* Loading a file *)

\* every line of at most MaxLineLen of these characters is loaded
LineChars == {"K", "=", ",", ";", "#", " ", "[", "]"}
LineArgs  == SeqsUpTo(LineChars, MaxLineLen)

\* every line "K=" followed by at most MaxRestLen of these characters is loaded
RestChars   == {"x", ",", " ", "="}
KeyLineArgs == {<<"K", "=">> \o r : r \in SeqsUpTo(RestChars, MaxRestLen)}

\* the lines of the longer files: headers, key lines, a line without "="
TemplateLines ==
    { <<"[", "s", "]">>,
      <<"[", " ", "S", " ", "]">>,
      <<"[", "t", "]">>,
      <<"k", "=", "x">>,
      <<"K", " ", "=", " ", "y", " ", ",", " ", "x">>,
      <<"j", "=", "x", "\r">>,
      <<"j", "u", "n", "k">> }

\* the files of at most MaxLines of these lines, each ended by a line feed
TemplateFiles ==
    {Flatten([i \in 1..Len(ls) |-> ls[i] \o <<"\n">>]) :
        ls \in SeqsUpTo(TemplateLines, MaxLines)}

\* "[section1]" / "key1=hello ; a comment"
ScenarioFile ==
    <<"[", "s", "e", "c", "t", "i", "o", "n", "1", "]", "\n",
      "k", "e", "y", "1", "=", "h", "e", "l", "l", "o", " ", ";", " ",
      "a", " ", "c", "o", "m", "m", "e", "n", "t", "\n">>
Section1 == <<"s", "e", "c", "t", "i", "o", "n", "1">>
Key1     == <<"k", "e", "y", "1">>
Hello    == <<"h", "e", "l", "l", "o">>

\* a Document that holds entries before load is called
LoadedBefore ==
    (<<"s">> :> (<<"k">> :> <<<<"o", "l", "d">>>> @@ <<"i">> :> <<<<"o", "l", "d">>>>))
    @@ (<<"u">> :> (<<"k">> :> <<<<"o", "l", "d">>>>))

InitLoad ==
    /\ \/ /\ sections = EmptyMap
          /\ \E text \in LineArgs \cup KeyLineArgs \cup TemplateFiles \cup {ScenarioFile} :
                disk = [exists |-> TRUE, text |-> text]
       \/ /\ sections \in {EmptyMap, LoadedBefore}
          /\ disk = NoFile
       \/ /\ sections = LoadedBefore
          /\ \E text \in TemplateFiles : disk = [exists |-> TRUE, text |-> text]
    /\ saved = EmptyMap
    /\ op = Call("init", <<>>, <<>>, <<>>)
    /\ retBool = FALSE
    /\ retValue = <<>>
    /\ retCount = 0
    /\ retInt = 0
    /\ retText = <<>>
    /\ thrown = NoException

NextLoad == Load

\* a file that is loaded into a Document
SpecLoad == InitLoad /\ [][NextLoad]_vars

-----------------------------------------------------------------------------
(* The file format, stated on positions, for the properties of load *)

SetMin(S) == CHOOSE x \in S : \A y \in S : x <= y
SetMax(S) == CHOOSE x \in S : \A y \in S : y <= x

\* the positions of the character c in str
Positions(str, c) == {i \in 1..Len(str) : str[i] = c}

\* the pieces of str between the occurrences of c, in order; nothing follows
\* a final c, and the empty string has no piece
Segments(str, c) ==
    LET P        == Positions(str, c)
        n        == Cardinality(P)
        nth(j)   == CHOOSE i \in P : Cardinality({q \in P : q <= i}) = j
        start(j) == IF j = 1 THEN 1 ELSE nth(j - 1) + 1
        stop(j)  == IF j = n + 1 THEN Len(str) ELSE nth(j) - 1
        all      == [j \in 1..(n + 1) |-> SubSeq(str, start(j), stop(j))]
    IN  IF all[n + 1] = <<>> THEN SubSeq(all, 1, n) ELSE all

\* str without its leading and trailing space, tab, CR and LF
Trimmed(str) ==
    LET keep == {i \in 1..Len(str) : str[i] \notin {" ", "\t", "\r", "\n"}}
    IN  IF keep = {} THEN <<>> ELSE SubSeq(str, SetMin(keep), SetMax(keep))

\* str with every upper-case letter replaced by its lower-case letter
Lowered(str) ==
    [i \in 1..Len(str) |->
        IF \E j \in 1..Len(UpperCase) : UpperCase[j] = str[i]
        THEN LowerCase[CHOOSE j \in 1..Len(UpperCase) : UpperCase[j] = str[i]]
        ELSE str[i]]

\* a line without its comment (everything from the first ; or #), trimmed
Cleaned(raw) ==
    LET marks == Positions(raw, ";") \cup Positions(raw, "#")
    IN  Trimmed(IF marks = {} THEN raw ELSE SubSeq(raw, 1, SetMin(marks) - 1))

\* the cleaned lines of a file, in order
CleanedLines(text) ==
    LET raw == Segments(text, "\n")
    IN  [i \in 1..Len(raw) |-> Cleaned(raw[i])]

IsHeader(line)  == line # <<>> /\ line[1] = "[" /\ line[Len(line)] = "]"
HeaderName(line) == Lowered(Trimmed(SubSeq(line, 2, Len(line) - 1)))
IsKeyLine(line) == line # <<>> /\ ~IsHeader(line) /\ Positions(line, "=") # {}
KeyOf(line) ==
    Lowered(Trimmed(SubSeq(line, 1, SetMin(Positions(line, "=")) - 1)))
ValueOf(line) ==
    LET right  == Trimmed(SubSeq(line, SetMin(Positions(line, "=")) + 1, Len(line)))
        pieces == Segments(right, ",")
    IN  [j \in 1..Len(pieces) |-> Trimmed(pieces[j])]

\* the section a key line at position i of lines is stored in: the one named
\* by the most recent header before it, the empty name when there is none
SectionAt(lines, i) ==
    LET headers == {h \in 1..(i - 1) : IsHeader(lines[h])}
    IN  IF headers = {} THEN <<>> ELSE HeaderName(lines[SetMax(headers)])

\* the Document after the key lines of lines are applied to secs, the last
\* occurrence of a key in a section deciding its Value
Applied(secs, lines) ==
    LET keyLines    == {i \in 1..Len(lines) : IsKeyLine(lines[i])}
        hits(s, k)  == {i \in keyLines : SectionAt(lines, i) = s /\ KeyOf(lines[i]) = k}
        names       == (DOMAIN secs) \cup {SectionAt(lines, i) : i \in keyLines}
        before(s)   == IF s \in DOMAIN secs THEN DOMAIN secs[s] ELSE {}
        keys(s)     == before(s)
                       \cup {KeyOf(lines[i]) : i \in {h \in keyLines : SectionAt(lines, h) = s}}
    IN  [s \in names |->
            [k \in keys(s) |->
                IF hits(s, k) # {}
                THEN ValueOf(lines[SetMax(hits(s, k))])
                ELSE secs[s][k]]]

\* load's loop body applied to lines that are already cleaned
RECURSIVE ApplyLines(_, _)
ApplyLines(st, lines) ==
    IF lines = <<>>
    THEN st
    ELSE ApplyLines(IF Head(lines) = <<>> THEN st ELSE ApplyLine(st, Head(lines)),
                    Tail(lines))

-----------------------------------------------------------------------------
(* Properties of load, under SpecLoad *)

\* C5: after load, every section named by a header line of the file is
\* present in the Document, also when no key line follows the header.
C5_HeaderCreatesSection ==
    (op.name = "load" /\ retBool) =>
        \A i \in 1..Len(CleanedLines(disk.text)) :
            IsHeader(CleanedLines(disk.text)[i]) =>
                IniFile_hasSection(sections, HeaderName(CleanedLines(disk.text)[i]))

\* C6: load applies the lines in order.  Each key line is stored in the
\* section named by the most recent header before it (the empty name when
\* there is none), a header seen again keeps the keys stored so far, and the
\* Value of a key is the one of its last occurrence in its section; entries
\* no line assigns are as they were.
C6_LoadInOrder ==
    [][(op'.name = "load" /\ retBool') =>
          sections' = Applied(sections, CleanedLines(disk.text))
    ]_vars

\* C6 witness: "[s]", "k=x", "[ S ]", "K = y , x" was loaded: the second
\* header continued the section and the second occurrence of k won
C6_Witness ==
    /\ op.name = "load"
    /\ disk.text = <<"[", "s", "]", "\n", "k", "=", "x", "\n",
                     "[", " ", "S", " ", "]", "\n",
                     "K", " ", "=", " ", "y", " ", ",", " ", "x", "\n">>
    /\ IniFile_sectionCount(sections) = 1
    /\ IniFile_get(sections, <<"s">>, <<"k">>, <<>>) = <<<<"y">>, <<"x">>>>

\* C7: load handles every line as the line without its comment (everything
\* from the first ; or #), trimmed of space, tab, CR and LF, and skips it
\* when nothing is left; "key1=hello ; a comment" under "[section1]" gives
\* get("section1","key1") = "hello".
C7_CommentAndTrim ==
    [][(op'.name = "load" /\ retBool') =>
          /\ sections' = ApplyLines([sections |-> sections, currentSection |-> <<>>],
                                    CleanedLines(disk.text)).sections
          /\ (disk.text = ScenarioFile /\ sections = EmptyMap) =>
                IniFile_get(sections', Section1, Key1, <<Fallback>>) = <<Hello>>
    ]_vars

\* C7 witness: the scenario file was loaded and key1 of section1 is "hello"
C7_Witness ==
    /\ op.name = "load"
    /\ disk.text = ScenarioFile
    /\ IniFile_get(sections, Section1, Key1, <<Fallback>>) = <<Hello>>

\* C8: a file of one line that is neither empty nor a header changes
\* nothing when the line has no "="; otherwise it stores, in the section of
\* the empty name, under the trimmed and lower-cased text left of the first
\* "=", the trimmed text right of it split on "," with every element
\* trimmed.
C8_KeyLine ==
    [][(/\ op'.name = "load"
        /\ retBool'
        /\ Len(CleanedLines(disk.text)) = 1
        /\ CleanedLines(disk.text)[1] # <<>>
        /\ ~IsHeader(CleanedLines(disk.text)[1])) =>
          LET line == CleanedLines(disk.text)[1]
          IN  IF Positions(line, "=") = {}
              THEN sections' = sections
              ELSE /\ IniFile_hasKey(sections', <<>>, KeyOf(line))
                   /\ sections'[<<>>][KeyOf(line)] = ValueOf(line)
                   /\ \A s \in DOMAIN sections' :
                         \A k \in DOMAIN sections'[s] :
                            (s # <<>> \/ k # KeyOf(line)) =>
                               (/\ s \in DOMAIN sections
                                /\ k \in DOMAIN sections[s]
                                /\ sections'[s][k] = sections[s][k])
                   /\ \A s \in DOMAIN sections : s \in DOMAIN sections'
    ]_vars

\* C8 witness: "K=x=, x" was loaded: the key is "k" and the Value is
\* "x=", "x"
C8_Witness ==
    /\ op.name = "load"
    /\ disk.text = <<"K", "=", "x", "=", ",", " ", "x">>
    /\ IniFile_get(sections, <<>>, <<"k">>, <<>>) = <<<<"x", "=">>, <<"x">>>>

\* the (section, key) pairs that a key line of lines assigns
AssignedBy(lines) ==
    {<<SectionAt(lines, i), KeyOf(lines[i])>> :
        i \in {j \in 1..Len(lines) : IsKeyLine(lines[j])}}

\* C20: load changes only what the file assigns.  It returns false exactly
\* when the file cannot be opened, and the Document is then as it was; on a
\* file that opens it returns true, removes no section and no key, and every
\* entry that no key line of the file assigns keeps its Value.
C20_LoadMerges ==
    [][op'.name = "load" =>
        /\ retBool' = disk.exists
        /\ ~retBool' => sections' = sections
        /\ \A s \in DOMAIN sections :
              /\ s \in DOMAIN sections'
              /\ \A k \in DOMAIN sections[s] :
                    /\ k \in DOMAIN sections'[s]
                    /\ <<s, k>> \notin AssignedBy(CleanedLines(disk.text)) =>
                          sections'[s][k] = sections[s][k]
    ]_vars

\* C20 witness: a file that assigns the key "k" of the section "s" was loaded
\* into a Document that held s.k, s.i and u.k: s.k has the file's Value, s.i
\* and u.k have the Values they had
C20_Witness ==
    /\ op.name = "load"
    /\ retBool
    /\ IniFile_get(sections, <<"s">>, <<"k">>, <<>>) = <<<<"y">>, <<"x">>>>
    /\ IniFile_get(sections, <<"s">>, <<"i">>, <<>>) = LoadedBefore[<<"s">>][<<"i">>]
    /\ IniFile_get(sections, <<"u">>, <<"k">>, <<>>) = LoadedBefore[<<"u">>][<<"k">>]

-----------------------------------------------------------------------------
(* Indexed access, and the calls and load that change a Document *)

\* the file the Document can load between calls: names in upper case, spaces
\* around names and elements
NamesFile ==
    <<"[", " ", "S", " ", "]", "\n",
      "K", " ", "=", "x", "\n",
      "[", "T", "]", "\n",
      "J", "=", "x", " ", ",", "x", "\n">>

InitIndex ==
    /\ sections = EmptyMap
    /\ disk \in {NoFile, [exists |-> TRUE, text |-> NamesFile]}
    /\ saved = EmptyMap
    /\ op = Call("init", <<>>, <<>>, <<>>)
    /\ retBool = FALSE
    /\ retValue = <<>>
    /\ retCount = 0
    /\ retInt = 0
    /\ retText = <<>>
    /\ thrown = NoException

\* ini[section] on a mutable Document
Index ==
    \E section \in SectionArgs :
        /\ sections' = IniFile_index(sections, section)
        /\ op' = Call("operator[]", section, <<>>, <<>>)
        /\ Returns(FALSE, <<>>, 0)
        /\ UNCHANGED <<disk, saved>>

\* ini[section][key] on a mutable Document
IndexKey ==
    \E section \in SectionArgs, key \in KeyArgs :
        LET m == IniFile_index(sections, section)
            r == IniSection_index(m[toLower(section)], key)
        IN  /\ sections' = MapPut(m, toLower(section), r.keyValues)
            /\ op' = Call("operator[][]", section, key, <<>>)
            /\ Returns(FALSE, r.ret, 0)
            /\ UNCHANGED <<disk, saved>>

\* ini[section] on a const Document
IndexConst ==
    \E section \in SectionArgs :
        LET r == IniFile_indexConst(sections, section)
        IN  /\ op' = Call("operator[] const", section, <<>>, <<>>)
            /\ IF r.thrown # NoException
               THEN Throws(r.thrown)
               ELSE Returns(FALSE, <<>>, 0)
            /\ UNCHANGED <<sections, disk, saved>>

\* ini[section][key] on a const Document
IndexKeyConst ==
    \E section \in SectionArgs, key \in KeyArgs :
        LET s == IniFile_indexConst(sections, section)
            r == IniSection_indexConst(s.ret, key)
        IN  /\ op' = Call("operator[][] const", section, key, <<>>)
            /\ IF s.thrown # NoException
               THEN Throws(s.thrown)
               ELSE IF r.thrown # NoException
                    THEN Throws(r.thrown)
                    ELSE Returns(FALSE, r.ret, 0)
            /\ UNCHANGED <<sections, disk, saved>>

NextIndex ==
    \/ Index
    \/ IndexKey
    \/ IndexConst
    \/ IndexKeyConst
    \/ Set
    \/ AddSection
    \/ ClearSection
    \/ RemoveSection
    \/ RemoveKey
    \/ Clear
    \/ Load

\* a Document changed by calls, by indexed access and by load
SpecIndex == InitIndex /\ [][NextIndex]_vars

-----------------------------------------------------------------------------
(* Properties of indexed access and of the stored names, under SpecIndex *)

\* C12: indexed access with an absent name.  On a const Document,
\* document[section] throws "section does not exist" and section[key] throws
\* "key does not exist", and nothing is inserted.  On a mutable Document the
\* access never throws and leaves an empty section, or a Value of length 0,
\* stored under the lower-cased name, so that hasSection and hasKey are true
\* after the access alone.
C12_IndexedAccess ==
    [][/\ op'.name = "operator[] const" =>
            /\ sections' = sections
            /\ ~SectionExists(sections, op'.section) => thrown' = SectionDoesNotExist
            /\ SectionExists(sections, op'.section) => thrown' = NoException
       /\ op'.name = "operator[][] const" =>
            /\ sections' = sections
            /\ ~SectionExists(sections, op'.section) => thrown' = SectionDoesNotExist
            /\ (/\ SectionExists(sections, op'.section)
                /\ ~EntryExists(sections, op'.section, op'.key)) =>
                   thrown' = KeyDoesNotExist
            /\ EntryExists(sections, op'.section, op'.key) =>
                   /\ thrown' = NoException
                   /\ retValue' = EntryValue(sections, op'.section, op'.key)
       /\ op'.name = "operator[]" =>
            /\ thrown' = NoException
            /\ IniFile_hasSection(sections', op'.section)
            /\ SectionExists(sections, op'.section) => sections' = sections
            /\ ~SectionExists(sections, op'.section) =>
                   /\ Lowered(op'.section) \in DOMAIN sections'
                   /\ sections'[Lowered(op'.section)] = EmptyMap
                   /\ DOMAIN sections' = DOMAIN sections \cup {Lowered(op'.section)}
                   /\ \A o \in DOMAIN sections : sections'[o] = sections[o]
       /\ op'.name = "operator[][]" =>
            /\ thrown' = NoException
            /\ IniFile_hasSection(sections', op'.section)
            /\ IniFile_hasKey(sections', op'.section, op'.key)
            /\ EntryExists(sections, op'.section, op'.key) =>
                   /\ sections' = sections
                   /\ retValue' = EntryValue(sections, op'.section, op'.key)
            /\ ~EntryExists(sections, op'.section, op'.key) =>
                   /\ Len(retValue') = 0
                   /\ Lowered(op'.section) \in DOMAIN sections'
                   /\ Lowered(op'.key) \in DOMAIN sections'[Lowered(op'.section)]
                   /\ sections'[Lowered(op'.section)][Lowered(op'.key)] = <<>>
                   /\ \A s \in DOMAIN sections : \A k \in DOMAIN sections[s] :
                         /\ s \in DOMAIN sections'
                         /\ k \in DOMAIN sections'[s]
                         /\ sections'[s][k] = sections[s][k]
    ]_vars

\* C12 witness: ini["S"]["K"] was read on a mutable Document that had the
\* section "s" without the key "k"; the key is now there with a Value of
\* length 0, next to the key the section had
C12_Witness ==
    /\ op.name = "operator[][]"
    /\ op.section = <<"S">>
    /\ op.key = <<"K">>
    /\ retValue = <<>>
    /\ IniFile_hasKey(sections, <<"s">>, <<"k">>)
    /\ IniFile_get(sections, <<"s">>, <<"k">>, <<Fallback>>) = <<>>
    /\ IniFile_get(sections, <<"s">>, <<"j">>, <<>>) = <<"x", "x">>

\* C19: every stored section name and key name equals its lower-cased form,
\* whatever load, set, addSection, mutable indexed access, clearSection,
\* removeSection, removeKey and clear were called; so no two names of one map
\* are equal up to case, and sectionCount and keyCount count the names that
\* are distinct up to case.
C19_NormalizedNames ==
    /\ \A s \in DOMAIN sections :
          /\ s = Lowered(s)
          /\ \A k \in DOMAIN sections[s] : k = Lowered(k)
    /\ \A s1, s2 \in DOMAIN sections : SameIgnoringCase(s1, s2) => s1 = s2
    /\ \A s \in DOMAIN sections :
          \A k1, k2 \in DOMAIN sections[s] : SameIgnoringCase(k1, k2) => k1 = k2
    /\ IniFile_sectionCount(sections)
          = Cardinality({Lowered(s) : s \in DOMAIN sections})
    /\ \A s \in SectionArgs :
          IniFile_keyCount(sections, s)
              = Cardinality({Lowered(k) : k \in UNION {DOMAIN sections[n] :
                    n \in {x \in DOMAIN sections : SameIgnoringCase(x, s)}}})

\* C19 witness: the file with the names " S ", "K", "T", "J" was loaded into
\* a Document that held the section "s" with the key "j", put there under an
\* upper-case name; the Document holds two sections, "s" with two keys
C19_Witness ==
    /\ op.name = "load"
    /\ retBool
    /\ DOMAIN sections = {<<"s">>, <<"t">>}
    /\ DOMAIN sections[<<"s">>] = {<<"k">>, <<"j">>}
    /\ DOMAIN sections[<<"t">>] = {<<"j">>}
    /\ sections[<<"t">>][<<"j">>] = <<<<"x">>, <<"x">>>>

-----------------------------------------------------------------------------
(* A Value that is read, decoded and assigned to *)

\* the Value is the one of the key "k" of the section "s"
TheSection == <<"s">>
TheKey     == <<"k">>
TheValue   == IniFile_get(sections, TheSection, TheKey, <<>>)

\* the Document with that Value replaced by values
WithValue(secs, values) ==
    MapPut(secs, TheSection, MapPut(secs[TheSection], TheKey, values))

\* every text of at most MaxTextLen of these characters is decoded
DecodeChars == {"0", "1", "8", "x", "A", " ", "-"}

\* the texts at and around the ends of the ranges of int and short, and
\* texts with the other characters a number can hold
RangeTexts ==
    { <<"2","1","4","7","4","8","3","6","4","7">>,
      <<"2","1","4","7","4","8","3","6","4","8">>,
      <<"-","2","1","4","7","4","8","3","6","4","8">>,
      <<"-","2","1","4","7","4","8","3","6","4","9">>,
      <<"0","x","7","F","F","F","F","F","F","F">>,
      <<"0","x","8","0","0","0","0","0","0","0">>,
      <<"7","0","0","0","0">>,
      <<"0","1","0","0","0","0","0">>,
      <<"0","1","7","7","7","7","7","7","7","7","7","7">>,
      <<"3","2","7","6","7">>,
      <<"3","2","7","6","8">>,
      <<"-","3","2","7","6","8">>,
      <<"-","3","2","7","6","9">>,
      <<"+","1","0">>,
      <<"0","X","a">>,
      <<"\t","7">>,
      <<"1","2","a">>,
      <<"1",".","5">> }

\* the other texts: the booleans, a word, a character
WordTexts ==
    { <<"t","r","u","e">>,
      <<"f","a","l","s","e">>,
      <<"T","R","U","E">>,
      <<"n","o","t","a","n","u","m","b","e","r">>,
      <<"c">> }

\* the texts a double is decoded from
DoubleTexts ==
    {<<"0", ".">> \o d : d \in SeqsUpTo({"0", "1"}, DoubleDigits) \ {<<>>}}

TextArgs ==
    SeqsUpTo(DecodeChars, MaxTextLen) \cup RangeTexts \cup WordTexts \cup DoubleTexts

\* the elements of the Values of several elements: the empty string, numbers,
\* letters, a string with a comma, a string with a leading space
ElemTexts ==
    { <<>>, <<"1">>, <<"2">>, <<"a">>, <<"b">>, <<"c">>,
      <<"a", ",", "b">>, <<" ", "a">> }

\* the Values that are read and assigned to: of 0..MaxValueLen elements, and
\* the words
ValueObjArgs ==
    SeqsUpTo(ElemTexts, MaxValueLen) \cup {<<t>> : t \in WordTexts}

\* the types a Value is decoded as
DecodeTypes == {"bool", "char", "short", "int", "long", "double", "std::string"}

\* the types that are assigned
AssignTypes == {"bool", "char", "short", "int", "long", "std::string"}

\* the scalars that are assigned, by type
ScalarArgs ==
    [T \in AssignTypes |->
        CASE T = "bool"        -> {TRUE, FALSE}
          [] T = "char"        -> {"c"}
          [] T = "short"       -> {33}
          [] T = "int"         -> {3, -10}
          [] T = "long"        -> {70000}
          [] T = "std::string" -> {<<>>, <<"x", " ", "y">>}]

\* the elements of the arrays, lists and vectors that are assigned, by type
ElementArgs ==
    [T \in AssignTypes |->
        CASE T = "bool"        -> {TRUE, FALSE}
          [] T = "char"        -> {"a"}
          [] T = "short"       -> {33}
          [] T = "int"         -> {-8}
          [] T = "long"        -> {70000}
          [] T = "std::string" -> {<<"x">>}]

\* the types of the arrays, lists and vectors that are assigned
VectorTypes == {"bool", "char", "int"}

\* the vectors and lists of T that are assigned: of 0..MaxElems elements
VectorArgs(T) == SeqsUpTo(ElementArgs[T], MaxElems)

\* char charArray[] = { 'a', 'b', 'c' }
CharArray == <<"a", "b", "c">>

\* the arrays of T that are assigned: of 1..MaxElems elements, and CharArray
ArrayArgs(T) ==
    (VectorArgs(T) \ {<<>>}) \cup (IF T = "char" THEN {CharArray} ELSE {})

\* the string literals that are assigned, as arrays of const char
Literals ==
    { <<NUL>>, <<"a", NUL>>, <<"a", "b", "c", NUL>>, <<"1", ",", " ", "2", NUL>> }

\* what a call that returns the T tv leaves in the ret variables
ReturnsTyped(tv) ==
    /\ retBool' = IF tv.type = "bool" THEN tv.v ELSE FALSE
    /\ retValue' = <<>>
    /\ retCount' = 0
    /\ retInt' = IF tv.type \in {"short", "int", "long", "double"} THEN tv.v ELSE 0
    /\ retText' = IF tv.type = "char" THEN <<tv.v>>
                  ELSE IF tv.type = "std::string" THEN tv.v ELSE <<>>
    /\ thrown' = NoException

\* the T that the getAs<T> before returned
LastResult ==
    Typed(op.value,
          IF op.value = "bool" THEN retBool
          ELSE IF op.value = "char" THEN retText[1]
          ELSE IF op.value = "std::string" THEN retText
          ELSE retInt)

\* ini.set("s", "k", values) on an empty Document
InitValue ==
    /\ \E values \in ValueObjArgs :
          /\ sections = IniFile_set(EmptyMap, TheSection, TheKey, values)
          /\ op = Call("set", TheSection, TheKey, values)
    /\ disk = NoFile
    /\ saved = EmptyMap
    /\ retBool = FALSE
    /\ retValue = <<>>
    /\ retCount = 0
    /\ retInt = 0
    /\ retText = <<>>
    /\ thrown = NoException

\* ini["s"]["k"].getString()
GetString ==
    /\ op' = Call("getString", TheSection, TheKey, <<>>)
    /\ retText' = getString(TheValue)
    /\ retBool' = FALSE
    /\ retValue' = <<>>
    /\ retCount' = 0
    /\ retInt' = 0
    /\ thrown' = NoException
    /\ UNCHANGED <<sections, disk, saved>>

\* ini.get("s", "k").getVector()
GetVector ==
    /\ op' = Call("getVector", TheSection, TheKey, <<>>)
    /\ Returns(FALSE, IniFile_get(sections, TheSection, TheKey, <<>>), 0)
    /\ UNCHANGED <<sections, disk, saved>>

\* ini["s"]["k"].getAs<T>(); a double is decoded from the texts of
\* IsDoubleText, a long from the texts whose number an int holds
GetAs ==
    \E T \in DecodeTypes :
        /\ (T = "double" /\ TheValue # <<>>) => IsDoubleText(TheValue[1])
        /\ (T = "long" /\ TheValue # <<>>) =>
               stoi(TheValue[1]).thrown # "out_of_range"
        /\ op' = Call("getAs", TheSection, TheKey, T)
        /\ \E r \in {IniValue_getAs(TheValue, T)} :
               IF r.thrown # NoException THEN Throws(r.thrown) ELSE ReturnsTyped(r.ret)
        /\ UNCHANGED <<sections, disk, saved>>

\* ini["s"]["k"] = value, for a scalar
Assign ==
    \E T \in AssignTypes : \E value \in ScalarArgs[T] :
        /\ sections' = WithValue(sections, IniValue_assign(TheValue, T, value))
        /\ op' = Call("operator=", TheSection, TheKey, Typed(T, value))
        /\ Returns(FALSE, <<>>, 0)
        /\ UNCHANGED <<disk, saved>>

\* ini["s"]["k"] = ini["s"]["k"].getAs<T>(), the second half: the T that
\* getAs<T> returned is assigned
AssignResult ==
    /\ op.name = "getAs"
    /\ thrown = NoException
    /\ sections' = WithValue(sections,
                       IniValue_assign(TheValue, LastResult.type, LastResult.v))
    /\ op' = Call("operator= result", TheSection, TheKey, LastResult)
    /\ Returns(FALSE, <<>>, 0)
    /\ UNCHANGED <<disk, saved>>

\* ini["s"]["k"] = arr, for an array
AssignArray ==
    \E T \in VectorTypes : \E arr \in ArrayArgs(T) :
        /\ sections' = WithValue(sections, IniValue_assignArray(TheValue, T, arr))
        /\ op' = Call("operator=(array)", TheSection, TheKey, Typed(T, arr))
        /\ Returns(FALSE, <<>>, 0)
        /\ UNCHANGED <<disk, saved>>

\* ini["s"]["k"] = "...", a string literal: an array of const char
AssignLiteral ==
    \E arr \in Literals :
        /\ sections' = WithValue(sections,
                           IniValue_assignArray(TheValue, "const char", arr))
        /\ op' = Call("operator=(literal)", TheSection, TheKey, Typed("const char", arr))
        /\ Returns(FALSE, <<>>, 0)
        /\ UNCHANGED <<disk, saved>>

\* ini["s"]["k"] = { ... }
AssignList ==
    \E T \in VectorTypes : \E list \in VectorArgs(T) :
        /\ sections' = WithValue(sections, IniValue_assignList(TheValue, T, list))
        /\ op' = Call("operator=(initializer_list)", TheSection, TheKey, Typed(T, list))
        /\ Returns(FALSE, <<>>, 0)
        /\ UNCHANGED <<disk, saved>>

\* ini["s"]["k"] = vec
AssignVector ==
    \E T \in VectorTypes : \E vec \in VectorArgs(T) :
        /\ sections' = WithValue(sections, IniValue_assignVector(TheValue, T, vec))
        /\ op' = Call("operator=(vector)", TheSection, TheKey, Typed(T, vec))
        /\ Returns(FALSE, <<>>, 0)
        /\ UNCHANGED <<disk, saved>>

\* split(join(values, ","), ','), as save and load compose them
JoinSplit ==
    /\ op' = Call("split(join)", TheSection, TheKey, <<>>)
    /\ Returns(FALSE, split(join(TheValue, <<",">>), ","), 0)
    /\ UNCHANGED <<sections, disk, saved>>

NextValue ==
    \/ GetString
    \/ GetVector
    \/ GetAs
    \/ Assign
    \/ AssignArray
    \/ AssignLiteral
    \/ AssignList
    \/ AssignVector
    \/ JoinSplit

\* a Value that is read, decoded and assigned to
SpecValue == InitValue /\ [][NextValue]_vars

\* ini.set("s", "k", text) on an empty Document
InitConvert ==
    /\ \E text \in TextArgs :
          /\ sections = IniFile_set(EmptyMap, TheSection, TheKey, <<text>>)
          /\ op = Call("set", TheSection, TheKey, <<text>>)
    /\ disk = NoFile
    /\ saved = EmptyMap
    /\ retBool = FALSE
    /\ retValue = <<>>
    /\ retCount = 0
    /\ retInt = 0
    /\ retText = <<>>
    /\ thrown = NoException

NextConvert ==
    \/ GetAs
    \/ AssignResult

\* a text that is decoded, and the T encoded and decoded again
SpecConvert == InitConvert /\ [][NextConvert]_vars

-----------------------------------------------------------------------------
(* Properties of a Value and of the converters, under SpecValue *)

\* C13: the text of a Value is empty for no element, the element itself for
\* one element, and the elements with ", " between neighbours for more;
\* after set("s","k",["1","2"]) the vector read back is ["1","2"] and the
\* text is "1, 2".  Reading changes nothing.
C13_TextOfValue ==
    [][/\ op'.name = "getString" =>
            /\ sections' = sections
            /\ Len(TheValue) = 0 => retText' = <<>>
            /\ Len(TheValue) = 1 => retText' = TheValue[1]
            /\ Len(TheValue) > 1 => retText' = Joined(TheValue, <<",", " ">>)
            /\ (op.name = "set" /\ op.value = <<<<"1">>, <<"2">>>>) =>
                   retText' = <<"1", ",", " ", "2">>
       /\ (op.name = "set" /\ op'.name = "getVector") =>
            /\ sections' = sections
            /\ retValue' = op.value
    ]_vars

\* C13 witness: the text of the Value ["1","2"] was read, and is "1, 2"
C13_Witness ==
    /\ op.name = "getString"
    /\ TheValue = <<<<"1">>, <<"2">>>>
    /\ retText = <<"1", ",", " ", "2">>

\* C14: getAs<T> on a Value of no element throws the conversion error; on a
\* Value of one or more elements it returns the decoding of the first
\* element, and throws exactly when that decoding throws, whatever the
\* later elements are; getAs<int> on ["notanumber"] throws the conversion
\* error.  It never changes the Value.
C14_GetAs ==
    [][op'.name = "getAs" =>
        /\ sections' = sections
        /\ Len(TheValue) = 0 => thrown' = ValueIsEmpty
        /\ Len(TheValue) >= 1 =>
              /\ thrown' = decode(op'.value, TheValue[1]).thrown
              /\ thrown' = NoException =>
                    LastResult' = decode(op'.value, TheValue[1]).ret
        /\ thrown' # NoException => thrown'.type = "IniValueConvertException"
        /\ (op'.value = "int" /\ TheValue = <<<<"n","o","t","a","n","u","m","b","e","r">>>>) =>
              thrown' = InvalidValue
    ]_vars

\* C14 witness: getAs<int> returned 1 on the Value ["1","a"], whose second
\* element is no number
C14_Witness ==
    /\ op.name = "getAs"
    /\ op.value = "int"
    /\ TheValue = <<<<"1">>, <<"a">>>>
    /\ thrown = NoException
    /\ retInt = 1

\* the number the digits of text denote in the given base, negated (the
\* least int has no positive counterpart)
RECURSIVE NegatedNumberIn(_, _)
NegatedNumberIn(text, base) ==
    IF text = <<>> THEN 0
    ELSE NegatedNumberIn(SubSeq(text, 1, Len(text) - 1), base) * base
            - DigitValue(text[Len(text)])

\* text is one or more decimal digits
IsDigits(text) ==
    text # <<>> /\ \A i \in 1..Len(text) : DigitValue(text[i]) < 10

\* text is decimal digits, with or without a sign before them
IsDecimalText(text) ==
    \/ IsDigits(text)
    \/ text # <<>> /\ text[1] \in {"+", "-"} /\ IsDigits(Tail(text))

\* the number a decimal text denotes
DecimalNumber(text) ==
    IF text[1] = "-" THEN NegatedNumberIn(Tail(text), 10)
    ELSE IF text[1] = "+" THEN -NegatedNumberIn(Tail(text), 10)
    ELSE -NegatedNumberIn(text, 10)

\* text is "0x" and one or more hexadecimal digits
IsHexText(text) ==
    /\ Len(text) >= 3
    /\ text[1] = "0"
    /\ text[2] = "x"
    /\ \A i \in 3..Len(text) : DigitValue(text[i]) < 16

\* the number a hexadecimal text denotes
HexNumber(text) == -NegatedNumberIn(SubSeq(text, 3, Len(text)), 16)

\* a text so short that its number is an int whatever its digits are
IsShortText(text) == Len(text) <= 9

\* C15: decoding a text as short, int or long yields the base-10 number of
\* a text of decimal digits, signed or not, and the base-16 number of a text
\* of "0x" and hexadecimal digits; it fails on every other text: the empty
\* text, a text with characters after the number, a text with leading
\* whitespace.  Stated on the texts of IsShortText.
C15_IntegerDecode ==
    [][(/\ op'.name = "getAs"
        /\ op'.value \in {"short", "int", "long"}
        /\ Len(TheValue) = 1
        /\ IsShortText(TheValue[1])) =>
            IF IsDecimalText(TheValue[1])
            THEN thrown' = NoException /\ retInt' = DecimalNumber(TheValue[1])
            ELSE IF IsHexText(TheValue[1])
                 THEN thrown' = NoException /\ retInt' = HexNumber(TheValue[1])
                 ELSE thrown' = InvalidValue
    ]_vars

\* text is the encoding of the T v: "true" or "false" for a bool, the
\* character for a char, the decimal text of the number for a short, int or
\* long, the string itself for a std::string
IsEncodingOf(T, v, text) ==
    CASE T = "bool"        -> text = IF v THEN <<"t", "r", "u", "e">>
                                     ELSE <<"f", "a", "l", "s", "e">>
      [] T = "char"        -> text = <<v>>
      [] T = "std::string" -> text = v
      [] OTHER             -> /\ IsDecimalText(text)
                              /\ text[1] # "+"
                              /\ DecimalNumber(text) = v

\* C16: an assignment replaces the elements of the Value.  After the
\* assignment of a scalar the Value is the one encoding of it; after the
\* assignment of an array, a list or a vector of N elements it is the N
\* encodings, in order; after the assignment of a string literal it is the
\* one string, not one element per character.
C16_Assignment ==
    [][/\ op'.name = "operator=" =>
            /\ Len(TheValue') = 1
            /\ IsEncodingOf(op'.value.type, op'.value.v, TheValue'[1])
       /\ (\/ op'.name = "operator=(array)"
           \/ op'.name = "operator=(initializer_list)"
           \/ op'.name = "operator=(vector)") =>
            /\ Len(TheValue') = Len(op'.value.v)
            /\ \A i \in 1..Len(op'.value.v) :
                  IsEncodingOf(op'.value.type, op'.value.v[i], TheValue'[i])
       /\ op'.name = "operator=(literal)" =>
            /\ Len(TheValue') = 1
            /\ TheValue'[1] \o <<NUL>> = op'.value.v
    ]_vars

\* C16 witness: the string literal "abc" was assigned, and the Value is the
\* one element "abc"
C16_Witness ==
    /\ op.name = "operator=(literal)"
    /\ op.value.v = <<"a", "b", "c", NUL>>
    /\ TheValue = <<<<"a", "b", "c">>>>

\* a Value whose elements hold no comma and no leading or trailing
\* whitespace
IsClean(values) ==
    \A i \in 1..Len(values) :
        /\ Positions(values[i], ",") = {}
        /\ Trimmed(values[i]) = values[i]

\* C18: for every sequence v of strings without a comma and without leading
\* or trailing whitespace, splitting join(v, ",") on ',' and trimming every
\* part yields v.
C18_JoinSplitInverse ==
    [][(op'.name = "split(join)" /\ IsClean(TheValue)) => retValue' = TheValue]_vars

\* new is the canonical form of text, which decodes to the T v: "true" or
\* "false" for a bool, the decimal text of the number for an integer, the
\* text itself for a char and a string, the number of Precision decimals
\* nearest to it for a double
IsCanonicalForm(T, text, v, new) ==
    CASE T = "bool"        ->
            /\ text \in {<<"t", "r", "u", "e">>, <<"1">>} => new = <<"t", "r", "u", "e">>
            /\ text \in {<<"f", "a", "l", "s", "e">>, <<"0">>} =>
                  new = <<"f", "a", "l", "s", "e">>
      [] T = "char"        -> new = text
      [] T = "std::string" -> new = text
      [] T = "double"      ->
            /\ IsDoubleText(new)
            /\ Len(new) = 2 + Precision
            /\ 2 * (stod(new) - v) <= Power10(DoubleDigits - Precision)
            /\ 2 * (v - stod(new)) <= Power10(DoubleDigits - Precision)
      [] OTHER             ->
            /\ IsEncodingOf(T, v, new)
            /\ text = <<"0", "x", "A">> => new = <<"1", "0">>

\* the T that getAs<T> returned is assigned back
IsEncodeStep == op.name = "getAs" /\ op'.name = "operator= result"

\* the Value that was assigned is decoded as the same T
IsDecodeAgainStep ==
    op.name = "operator= result" /\ op'.name = "getAs" /\ op'.value = op.value.type

\* C17: for every converter and every text it accepts, encode(decode(text))
\* is the canonical form of the text, and decoding the canonical form gives
\* the value that decoding the text gave.
C17_RoundTripExact ==
    [][/\ IsEncodeStep =>
            /\ Len(TheValue') = 1
            /\ IsCanonicalForm(op.value, TheValue[1], LastResult.v, TheValue'[1])
       /\ IsDecodeAgainStep =>
            /\ thrown' = NoException
            /\ LastResult' = op.value
    ]_vars

\* C17 as amended: encode(decode(text)) is the canonical form of the text;
\* decoding the canonical form gives the value that decoding the text gave
\* for bool, char, short, int, long and std::string, and for double the
\* value rounded to the decimals the canonical form has.
C17_RoundTrip ==
    [][/\ IsEncodeStep =>
            /\ Len(TheValue') = 1
            /\ IsCanonicalForm(op.value, TheValue[1], LastResult.v, TheValue'[1])
       /\ IsDecodeAgainStep =>
            /\ thrown' = NoException
            /\ op'.value # "double" => LastResult' = op.value
            /\ op'.value = "double" =>
                  /\ LastResult'.v % Power10(DoubleDigits - Precision) = 0
                  /\ 2 * (LastResult'.v - op.value.v) <= Power10(DoubleDigits - Precision)
                  /\ 2 * (op.value.v - LastResult'.v) <= Power10(DoubleDigits - Precision)
    ]_vars

\* C17 witness: the int 10 that "10", "0xA" or "012" decodes to was assigned
\* back, and the Value is "10"
C17_Witness ==
    /\ op.name = "operator= result"
    /\ op.value.type = "int"
    /\ op.value.v = 10
    /\ TheValue = <<<<"1", "0">>>>

\* the range of short
SHRT_MAX == 32767
SHRT_MIN == -SHRT_MAX - 1

\* the digits of a decimal text: the text without its sign
Unsigned(text) == IF text[1] \in {"+", "-"} THEN Tail(text) ELSE text

\* digits without the zeros they begin with
Significant(digits) ==
    LET nonZero == {i \in 1..Len(digits) : digits[i] # "0"}
    IN  IF nonZero = {} THEN <<>>
        ELSE SubSeq(digits, CHOOSE i \in nonZero : \A j \in nonZero : i <= j,
                    Len(digits))

\* the number of a decimal text is an int: it has fewer digits than INT_MAX,
\* or as many and is not beyond INT_MAX (INT_MIN for a negative text)
DecimalFitsInt(text) ==
    LET d    == Significant(Unsigned(text))
        last == (INT_MAX % 10) + (IF text[1] = "-" THEN 1 ELSE 0)
    IN  \/ Len(d) < 10
        \/ /\ Len(d) = 10
           /\ \E h \in {-NegatedNumberIn(SubSeq(d, 1, 9), 10)} :
                  \/ h < INT_MAX \div 10
                  \/ h = INT_MAX \div 10 /\ DigitValue(d[10]) <= last

\* the number of a hexadecimal text is an int
HexFitsInt(text) ==
    LET d == Significant(SubSeq(text, 3, Len(text)))
    IN  Len(d) < 8 \/ (Len(d) = 8 /\ DigitValue(d[1]) < 8)

\* text denotes an integer: in decimal digits, or in hexadecimal after "0x"
IsIntegerText(text) == IsDecimalText(text) \/ IsHexText(text)

\* the integer of such a text is an int
FitsInt(text) ==
    IF IsHexText(text) THEN HexFitsInt(text) ELSE DecimalFitsInt(text)

\* the integer of such a text, when it is an int
IntegerNumber(text) ==
    IF IsHexText(text) THEN HexNumber(text) ELSE DecimalNumber(text)

\* C21: decoding as short a text whose integer n is an int outside
\* SHRT_MIN..SHRT_MAX does not fail and returns the short that is n modulo
\* 2^16 ("70000" gives 4464); decoding a text whose integer is not an int
\* fails with InvalidValue.
C21_ShortDecodeWraps ==
    [][(/\ op'.name = "getAs"
        /\ op'.value = "short"
        /\ Len(TheValue) = 1
        /\ IsIntegerText(TheValue[1])) =>
            IF ~FitsInt(TheValue[1])
            THEN thrown' = InvalidValue
            ELSE IntegerNumber(TheValue[1]) \notin SHRT_MIN..SHRT_MAX =>
                    /\ thrown' = NoException
                    /\ retInt' \in SHRT_MIN..SHRT_MAX
                    /\ retInt' % (SHRT_MAX - SHRT_MIN + 1)
                          = IntegerNumber(TheValue[1]) % (SHRT_MAX - SHRT_MIN + 1)
    ]_vars

=============================================================================
